---- MODULE Spec2Model ----
(***************************************************************************)
(* Model of the Salesforce OAuth relay (express + express-session + axios). *)
(* The repository holds two variants of the same server: src/server.js and  *)
(* src/unnamed/part_000.  They differ only in the /oauth/callback handler;  *)
(* the variable "variant" says which of the two is running.                 *)
(*                                                                         *)
(* Strings are sequences of one-character strings, so that startsWith,      *)
(* concatenation and encodeURIComponent are computed and not assumed.  The  *)
(* JavaScript values undefined and null are the one-element sequences       *)
(* <<"undefined">> and <<"null">>, which no character string equals.        *)
(* Fixed texts (error messages, notes) are one-element sequences too.       *)
(***************************************************************************)
EXTENDS Integers, Sequences, FiniteSets, TLC

VARIABLES variant, store, pending, resp, lastGrant, now, silent

vars == <<variant, store, pending, resp, lastGrant, now, silent>>

\* what no request handler changes: the variant that runs, the clock, and
\* the outbound calls the provider will never answer
env == <<variant, now, silent>>

----------------------------------------------------------------------------
(* Bounds *)

\* number of requests that may be suspended at an await at the same time
MaxInflight == 2

\* the last tick of the clock
MaxTime == 3

\* cookie.maxAge, one hour, in ticks of the clock
maxAge == 2

\* the browser sessions (cookies) that send requests
Sessions == {"s1", "s2"}

----------------------------------------------------------------------------
(* JavaScript values *)

Undef == <<"undefined">>

Null == <<"null">>

\* JavaScript truthiness of a string-or-undefined-or-null value
Truthy(v) == v # Undef /\ v # Null /\ v # <<>>

\* s.startsWith(p)
StartsWith(s, p) == Len(s) >= Len(p) /\ SubSeq(s, 1, Len(p)) = p

\* s.includes(p), used to look for a token inside a response body
Includes(s, p) ==
  \E i \in 1..(Len(s) - Len(p) + 1) : SubSeq(s, i, i + Len(p) - 1) = p

----------------------------------------------------------------------------
(* Values the provider and the browser can send *)

TokA == <<"0", "0", "D", "!", "X">>

TokB == <<"0", "0", "D", "+", "b">>

RefA == <<"5", "A", "e", "p">>

InstA == <<"h", "t", "t", "p", "s", ":", "/", "/", "a", ".", "s", "f">>

InstB == <<"h", "t", "t", "p", "s", ":", "/", "/", "b", ".", "s", "f">>

IdA == <<"i", "d", "/", "1">>

IssuedA == <<"1", "7">>

Code1 == <<"c", "1">>

\* a second authorization code, for two callbacks of one browser
Code2 == <<"c", "2">>

\* req.query.code: absent, empty, or an authorization code
QueryCodes == {Undef, <<>>, Code1}

\* environment of the process (lines 28-33)
\* SF_LOGIN_URL of the source (SF_ is the fairness prefix of TLA+)
SfLoginUrl == <<"h", "t", "t", "p", "s", ":", "/", "/", "l", ".", "s", "f">>

altUrl ==
  <<"h", "t", "t", "p", "s", ":", "/", "/", "l", "o", "g", "i", "n", ".", "s", "f">>

\* body of a token endpoint response: JSON null or a JSON object
TokenData(a, r, i, d, t) ==
  [type |-> "object", access_token |-> a, refresh_token |-> r,
   instance_url |-> i, id |-> d, issued_at |-> t]

NullData ==
  [type |-> "null", access_token |-> Undef, refresh_token |-> Undef,
   instance_url |-> Undef, id |-> Undef, issued_at |-> Undef]

ErrorData == TokenData(Undef, Undef, Undef, Undef, Undef)

FullData == TokenData(TokA, RefA, InstA, IdA, IssuedA)

TokenBodies ==
  { NullData, ErrorData, FullData,
    TokenData(TokB, Undef, InstB, Undef, Undef),
    TokenData(TokA, Undef, Undef, Undef, Undef),
    TokenData(<<>>, Undef, InstA, Undef, Undef) }

\* what axios sees of one token POST: a transport error or an HTTP response
NetError == [kind |-> "neterr", status |-> 0, data |-> NullData]

Http(st, d) == [kind |-> "http", status |-> st, data |-> d]

NoExchange == [kind |-> "none", status |-> 0, data |-> NullData]

TokenOutcomes ==
  {NetError} \cup {Http(200, d) : d \in TokenBodies}
             \cup {Http(st, ErrorData) : st \in {302, 400, 503}}
             \cup {Http(400, FullData)}

\* answers to the second POST of part_000, which are only logged
AltOutcomes == {NetError, Http(400, ErrorData), Http(200, FullData)}

----------------------------------------------------------------------------
(* Session store *)

\* no session record is stored for the cookie
Absent == [present |-> FALSE, sf |-> NullData, expires |-> 0]

\* a session saved now: its cookie is set with Expires = now + maxAge
Stored(sf) == [present |-> TRUE, sf |-> sf, expires |-> now + maxAge]

\* req.session of a request the browser of s sends now: the record of its
\* cookie, or none once the cookie has expired (rolling is not set, so the
\* cookie is only set again when the session is modified)
Session(s) ==
  IF store[s].present /\ now < store[s].expires THEN store[s] ELSE Absent

\* the complete token pair of the data model: an authenticated session
Authenticated(rec) ==
  rec.present /\ Truthy(rec.sf.access_token) /\ Truthy(rec.sf.instance_url)

\* slip: rolling is on, every response renews a live cookie
TouchRolling(rec) ==
  IF rec.present /\ now < rec.expires
  THEN [rec EXCEPT !.expires = now + maxAge]
  ELSE rec

\* the record after a request that did not modify its session: rolling is
\* not set, so no cookie is sent and its expiry stays where it was
Touch(rec) == rec

\* the end of a request of session s that did not assign req.session
EndRequest(s) == store' = [store EXCEPT ![s] = Touch(@)]

----------------------------------------------------------------------------
(* Requests suspended at an await, and responses *)

\* a response body; a field that is Undef is absent (res.json drops it)
NoBody ==
  [text |-> Undef, error |-> Undef, detail |-> Undef, authenticated |-> Undef,
   instance_url |-> Undef, frontdoorUrl |-> Undef, note |-> Undef]

Text(t) == [NoBody EXCEPT !.text = <<t>>]

Response(k, s, st, b, loc, ex, ps) ==
  [kind |-> k, sess |-> s, status |-> st, body |-> b,
   location |-> loc, exch |-> ex, posts |-> ps]

\* the step answered no request
NoResp == Response("none", "none", 0, NoBody, Undef, NoExchange, << >>)

\* what tells two suspended requests apart: route, session and code
Key(r) == <<r.kind, r.sess, r.code>>

\* pending is the set of suspended requests; it can take one more
CanSuspend(r) ==
  /\ Cardinality(pending) < MaxInflight
  /\ \A q \in pending : Key(q) # Key(r)

Init ==
  /\ variant \in {"server.js", "part_000"}
  /\ store = [s \in Sessions |-> Absent]
  /\ pending = {}
  /\ resp = NoResp
  /\ lastGrant = [s \in Sessions |-> Undef]
  /\ now = 0
  /\ silent = {}

----------------------------------------------------------------------------
(* GET /auth *)

authUrl ==
  SfLoginUrl \o <<"/services/oauth2/authorize?",
                  "response_type=code&client_id&redirect_uri&scope">>

\* slip: saveUninitialized is on, the redirect stores an empty session
AuthSavesSession(s) ==
  /\ resp' = Response("auth", s, 302, NoBody, authUrl, NoExchange, << >>)
  /\ store' = [store EXCEPT ![s] = IF Session(s).present THEN @ ELSE Stored(NullData)]
  /\ UNCHANGED <<env, pending, lastGrant>>

\* /auth redirects to the provider; saveUninitialized is false and the
\* handler does not touch req.session, so no record is stored
Auth(s) ==
  /\ resp' = Response("auth", s, 302, NoBody, authUrl, NoExchange, << >>)
  /\ EndRequest(s)
  /\ UNCHANGED <<env, pending, lastGrant>>

----------------------------------------------------------------------------
(* GET /oauth/callback *)

\* SF_LOGIN_URL.replace(/\/$/, '')
StripSlash(u) ==
  IF Len(u) > 0 /\ u[Len(u)] = "/" THEN SubSeq(u, 1, Len(u) - 1) ELSE u

tokenUrl == StripSlash(SfLoginUrl) \o <<"/services/oauth2/token">>

altTokenUrl == altUrl \o <<"/services/oauth2/token">>

\* slip: validateStatus is left at the axios default, only 2xx resolves
TokenRejectsNon2xx(o) == o.kind = "neterr" \/ o.status < 200 \/ o.status >= 300

\* validateStatus: status => status < 500; a transport error rejects too
TokenRejects(o) == o.kind = "neterr" \/ o.status >= 500

\* slip: instance_url is read from the id field of the response
SfServerWrongField(d) == TokenData(d.access_token, d.refresh_token, d.id, Undef, Undef)

\* the record server.js assigns to req.session.sf (three fields)
SfServer(d) == TokenData(d.access_token, d.refresh_token, d.instance_url, Undef, Undef)

\* the record part_000 assigns to req.session.sf (five fields)
SfPart(d) ==
  TokenData(d.access_token, d.refresh_token, d.instance_url, d.id, d.issued_at)

\* slip: the status of the token response is not compared with 200
AcceptServerAnyStatus(o) ==
  /\ ~TokenRejects(o)
  /\ o.data.type # "null"
  /\ Truthy(o.data.access_token)

\* server.js: the condition under which the session is written
AcceptServer(o) ==
  /\ ~TokenRejects(o)
  /\ o.status = 200
  /\ o.data.type # "null"
  /\ Truthy(o.data.access_token)

\* part_000: the try block reaches the assignment of req.session.sf
AcceptPart(o) ==
  /\ ~TokenRejects(o)
  /\ o.status = 200
  /\ o.data.type # "null"

\* part_000: control reaches the catch block: axios rejected, or reading
\* tokenResp.data.access_token of a null body threw a TypeError
CatchPart(o) ==
  \/ TokenRejects(o)
  \/ (o.status = 200 /\ o.data.type = "null")

\* the instance URL a complete successful exchange granted, else Undef
Granted(o) ==
  IF /\ o.kind = "http" /\ o.status = 200 /\ o.data.type = "object"
     /\ Truthy(o.data.access_token) /\ Truthy(o.data.instance_url)
  THEN o.data.instance_url
  ELSE Undef

\* slip: only the empty string counts as a missing code
CallbackBeginEmptyOnly(s, code) ==
  IF code = << >>
  THEN /\ resp' = Response("callback", s, 400, Text("Missing code"), Undef,
                           NoExchange, << >>)
       /\ UNCHANGED <<env, store, pending, lastGrant>>
  ELSE LET r == [kind |-> "callback", sess |-> s, pc |-> "token",
                  code |-> code, sf |-> NullData, exch |-> NoExchange,
                  posts |-> <<tokenUrl>>]
       IN /\ CanSuspend(r)
          /\ pending' = pending \cup {r}
       /\ resp' = NoResp
       /\ UNCHANGED <<env, store, lastGrant>>

\* the handler up to its first await: the code check and the token POST
CallbackBegin(s, code) ==
  IF ~Truthy(code)
  THEN /\ resp' = Response("callback", s, 400, Text("Missing code"), Undef,
                           NoExchange, << >>)
       /\ EndRequest(s)
       /\ UNCHANGED <<env, pending, lastGrant>>
  ELSE LET r == [kind |-> "callback", sess |-> s, pc |-> "token",
                  code |-> code, sf |-> NullData, exch |-> NoExchange,
                  posts |-> <<tokenUrl>>]
       IN /\ CanSuspend(r)
          /\ pending' = pending \cup {r}
       /\ resp' = NoResp
       /\ UNCHANGED <<env, store, lastGrant>>

\* slip: the new fields are merged into the record the session had
CallbackSuccessMerges(r, o, sf) ==
  LET old == store[r.sess].sf
      Pick(new, was) == IF new = Undef THEN was ELSE new
      merged == [type |-> sf.type,
                 access_token |-> Pick(sf.access_token, old.access_token),
                 refresh_token |-> Pick(sf.refresh_token, old.refresh_token),
                 instance_url |-> Pick(sf.instance_url, old.instance_url),
                 id |-> Pick(sf.id, old.id),
                 issued_at |-> Pick(sf.issued_at, old.issued_at)]
  IN /\ store' = [store EXCEPT ![r.sess] = Stored(merged)]
     /\ resp' = Response("callback", r.sess, 302, NoBody, <<"/">>, o, r.posts)
     /\ pending' = pending \ {r}
     /\ lastGrant' = [lastGrant EXCEPT ![r.sess] = Granted(o)]

\* the session is written and the browser is sent to the application root;
\* express-session saves the modified session when the response ends
CallbackSuccess(r, o, sf) ==
  /\ store' = [store EXCEPT ![r.sess] = Stored(sf)]
  /\ resp' = Response("callback", r.sess, 302, NoBody, <<"/">>, o, r.posts)
  /\ pending' = pending \ {r}
  /\ lastGrant' = [lastGrant EXCEPT ![r.sess] = Granted(o)]

\* slip: a failed exchange also destroys the session of the request
CallbackFailClears(r, ex, t) ==
  /\ resp' = Response("callback", r.sess, 500, Text(t), Undef, ex, r.posts)
  /\ pending' = pending \ {r}
  /\ store' = [store EXCEPT ![r.sess] = Absent]
  /\ UNCHANGED lastGrant

\* res.status(500).send(text): the session is not assigned
CallbackFail(r, ex, t) ==
  /\ resp' = Response("callback", r.sess, 500, Text(t), Undef, ex, r.posts)
  /\ pending' = pending \ {r}
  /\ EndRequest(r.sess)
  /\ UNCHANGED lastGrant

\* part_000: the catch block sends the second POST and awaits it
AltAttempt(r, o) ==
  [r EXCEPT !.pc = "alt", !.exch = o, !.posts = Append(@, altTokenUrl)]

\* the token endpoint (or the transport) answers the POST of request r.
\* In server.js both the try and the catch block return, so the second
\* POST that follows them (lines 111-134) is never sent.
TokenResponse(r, o) ==
  /\ r.kind = "callback"
  /\ r.pc = "token"
  /\ Key(r) \notin silent
  /\ UNCHANGED env
  /\ IF variant = "server.js"
     THEN IF AcceptServer(o)
          THEN CallbackSuccess(r, o, SfServer(o.data))
          ELSE IF TokenRejects(o)
               THEN CallbackFail(r, o, "OAuth token exchange failed. See server logs.")
               ELSE CallbackFail(r, o, "OAuth token exchange failed - token endpoint returned unexpected response. See server logs.")
     ELSE IF CatchPart(o)
          THEN /\ pending' = (pending \ {r}) \cup {AltAttempt(r, o)}
               /\ resp' = NoResp
               /\ UNCHANGED <<store, lastGrant>>
          ELSE IF AcceptPart(o)
               THEN CallbackSuccess(r, o, SfPart(o.data))
               ELSE CallbackFail(r, o, "OAuth token exchange failed - token endpoint returned error. See server logs.")

\* part_000 only: the second POST, to login.salesforce.com, is answered;
\* whatever the answer, it is logged and the request ends with 500
AltResponse(r, o) ==
  /\ r.kind = "callback"
  /\ r.pc = "alt"
  /\ Key(r) \notin silent
  /\ UNCHANGED env
  /\ CallbackFail(r, r.exch, "OAuth token exchange failed. See server logs for details.")

----------------------------------------------------------------------------
(* GET /logout *)

\* slip: the redirect is sent but the record is not destroyed
LogoutKeepsSession(s) ==
  /\ resp' = Response("logout", s, 302, NoBody, <<"/">>, NoExchange, << >>)
  /\ UNCHANGED <<env, store, pending, lastGrant>>

\* req.session.destroy removes the record of the cookie, then redirects
Logout(s) ==
  /\ store' = [store EXCEPT ![s] = Absent]
  /\ lastGrant' = [lastGrant EXCEPT ![s] = Undef]
  /\ resp' = Response("logout", s, 302, NoBody, <<"/">>, NoExchange, << >>)
  /\ UNCHANGED <<env, pending>>

----------------------------------------------------------------------------
(* GET /api/frontdoor *)

\* body of a single-access response: JSON null, a string, or a JSON object
FrontData(t, str, uri, url) ==
  [type |-> t, str |-> str, frontdoor_uri |-> uri, frontdoor_url |-> url]

PathA == <<"/", "s", "e", "c", "u", "r", "?", "s", "i", "d", "=", "o", "t", "p">>

FrontBodies ==
  { FrontData("null", Undef, Undef, Undef),
    FrontData("string", <<>>, Undef, Undef),
    FrontData("string", PathA, Undef, Undef),
    FrontData("string", InstA \o PathA, Undef, Undef),
    FrontData("object", Undef, Undef, Undef),
    FrontData("object", Undef, PathA, Undef),
    FrontData("object", Undef, Undef, InstB \o PathA),
    FrontData("object", Undef, <<>>, PathA) }

SingleError == [kind |-> "neterr", status |-> 0, data |-> FrontData("null", Undef, Undef, Undef)]

SingleHttp(st, d) == [kind |-> "http", status |-> st, data |-> d]

SingleOutcomes ==
  {SingleError} \cup {SingleHttp(200, d) : d \in FrontBodies}
                \cup {SingleHttp(st, FrontData("object", Undef, Undef, Undef)) : st \in {401, 500}}

\* axios default validateStatus: only 2xx resolves
SingleRejects(o) == o.kind = "neterr" \/ o.status < 200 \/ o.status >= 300

\* a || b of JavaScript
Or(a, b) == IF Truthy(a) THEN a ELSE b

\* err.message of the exception the catch block receives
ErrMessage(o, host) ==
  IF o.kind = "neterr"
  THEN <<"getaddrinfo ENOTFOUND ">> \o host
  ELSE IF SingleRejects(o)
       THEN <<"Request failed with status code ", ToString(o.status)>>
       ELSE <<"Cannot read properties of null (reading 'frontdoor_uri')">>

\* characters encodeURIComponent leaves alone: A-Z a-z 0-9 - _ . ! ~ * ' ( )
Unreserved ==
  { "A", "B", "C", "D", "E", "F", "G", "H", "I", "J", "K", "L", "M", "N", "O",
    "P", "Q", "R", "S", "T", "U", "V", "W", "X", "Y", "Z",
    "a", "b", "c", "d", "e", "f", "g", "h", "i", "j", "k", "l", "m", "n", "o",
    "p", "q", "r", "s", "t", "u", "v", "w", "x", "y", "z",
    "0", "1", "2", "3", "4", "5", "6", "7", "8", "9",
    "-", "_", ".", "!", "~", "*", "'", "(", ")" }

\* the percent escape of a reserved ASCII character
Escape(c) ==
  CASE c = " " -> <<"%", "2", "0">>
    [] c = "#" -> <<"%", "2", "3">>
    [] c = "%" -> <<"%", "2", "5">>
    [] c = "&" -> <<"%", "2", "6">>
    [] c = "+" -> <<"%", "2", "B">>
    [] c = "/" -> <<"%", "2", "F">>
    [] c = ":" -> <<"%", "3", "A">>
    [] c = "=" -> <<"%", "3", "D">>
    [] c = "?" -> <<"%", "3", "F">>

RECURSIVE encodeURIComponent(_)
encodeURIComponent(str) ==
  IF str = << >>
  THEN << >>
  ELSE (IF Head(str) \in Unreserved THEN <<Head(str)>> ELSE Escape(Head(str)))
       \o encodeURIComponent(Tail(str))

\* slip: the guard forgets the instance URL
NotAuthenticatedTokenOnly(rec) ==
  ~rec.present \/ ~Truthy(rec.sf.access_token)

\* the guard at the head of the handler
NotAuthenticated(rec) ==
  ~rec.present \/ ~Truthy(rec.sf.access_token) \/ ~Truthy(rec.sf.instance_url)

singleaccessUrl(sf) == sf.instance_url \o <<"/services/oauth2/singleaccess">>

\* data.frontdoor_uri || data.frontdoor_url || (typeof data === 'string' ? data : null)
Frontdoor(data) ==
  Or(Or(data.frontdoor_uri, data.frontdoor_url),
     IF data.type = "string" THEN data.str ELSE Null)

\* slip: the access token is appended without encodeURIComponent
fallbackUnencoded(sf) ==
  sf.instance_url \o <<"/secur/frontdoor.jsp?sid=">> \o sf.access_token

fallback(sf) ==
  sf.instance_url \o <<"/secur/frontdoor.jsp?sid=">> \o encodeURIComponent(sf.access_token)

\* slip: the returned value is passed through without the prefix
fullFrontdoorUnprefixed(sf, frontdoor) == frontdoor

fullFrontdoor(sf, frontdoor) ==
  IF StartsWith(frontdoor, <<"h", "t", "t", "p">>)
  THEN frontdoor
  ELSE sf.instance_url \o frontdoor

\* the body and status the handler answers with once the POST has settled
FrontdoorResult(sf, o) ==
  IF SingleRejects(o) \/ o.data.type = "null"
  THEN [status |-> 500,
        body |-> [NoBody EXCEPT !.error = <<"singleaccess_failed">>,
                                !.detail = ErrMessage(o, sf.instance_url)]]
  ELSE IF ~Truthy(Frontdoor(o.data))
       THEN [status |-> 200,
             body |-> [NoBody EXCEPT
                         !.frontdoorUrl = fallback(sf),
                         !.note = <<"fallback frontdoor (not recommended for prod)">>]]
       ELSE [status |-> 200,
             body |-> [NoBody EXCEPT
                         !.frontdoorUrl = fullFrontdoor(sf, Frontdoor(o.data))]]

\* the handler up to its await: the guard and the single-access POST
FrontdoorBegin(s) ==
  IF NotAuthenticated(Session(s))
  THEN /\ resp' = Response("frontdoor", s, 401,
                           [NoBody EXCEPT !.error = <<"not_authenticated">>],
                           Undef, NoExchange, << >>)
       /\ EndRequest(s)
       /\ UNCHANGED <<env, pending, lastGrant>>
  ELSE LET r == [kind |-> "frontdoor", sess |-> s, pc |-> "single",
                  code |-> Undef, sf |-> Session(s).sf, exch |-> NoExchange,
                  posts |-> <<singleaccessUrl(Session(s).sf)>>]
       IN /\ CanSuspend(r)
          /\ pending' = pending \cup {r}
       /\ resp' = NoResp
       /\ UNCHANGED <<env, store, lastGrant>>

\* the single-access endpoint (or the transport) answers request r
SingleAccessResponse(r, o) ==
  LET res == FrontdoorResult(r.sf, o)
  IN /\ r.kind = "frontdoor"
     /\ Key(r) \notin silent
     /\ resp' = Response("frontdoor", r.sess, res.status, res.body, Undef,
                         o,
                         r.posts)
     /\ pending' = pending \ {r}
     /\ EndRequest(r.sess)
     /\ UNCHANGED <<env, lastGrant>>

----------------------------------------------------------------------------
(* GET /api/me *)

\* slip: the status body returns the access token in place of the URL
ApiMeBodyLeaks(rec) ==
  IF ~rec.present
  THEN [NoBody EXCEPT !.authenticated = <<"false">>]
  ELSE [NoBody EXCEPT !.authenticated = <<"true">>,
                      !.instance_url = rec.sf.access_token]

\* the body of /api/me for the session record of the cookie
ApiMeBody(rec) ==
  IF ~rec.present
  THEN [NoBody EXCEPT !.authenticated = <<"false">>]
  ELSE [NoBody EXCEPT !.authenticated = <<"true">>,
                      !.instance_url = rec.sf.instance_url]

ApiMe(s) ==
  /\ resp' = Response("me", s, 200, ApiMeBody(Session(s)), Undef, NoExchange, << >>)
  /\ EndRequest(s)
  /\ UNCHANGED <<env, pending, lastGrant>>

----------------------------------------------------------------------------

Next ==
  \/ \E s \in Sessions : Auth(s)
  \/ \E s \in Sessions, code \in QueryCodes : CallbackBegin(s, code)
  \/ \E r \in pending, o \in TokenOutcomes : TokenResponse(r, o)
  \/ \E r \in pending, o \in AltOutcomes : AltResponse(r, o)
  \/ \E s \in Sessions : Logout(s)
  \/ \E s \in Sessions : FrontdoorBegin(s)
  \/ \E r \in pending, o \in SingleOutcomes : SingleAccessResponse(r, o)
  \/ \E s \in Sessions : ApiMe(s)

Spec == Init /\ [][Next]_vars

----------------------------------------------------------------------------
(* The same server with a clock, to follow the expiry of cookies *)

\* time passes
Tick ==
  /\ now < MaxTime
  /\ now' = now + 1
  /\ resp' = NoResp
  /\ UNCHANGED <<variant, silent, store, pending, lastGrant>>

\* token responses followed through an expiry
TokenOutcomesTTL ==
  {NetError, Http(200, FullData), Http(200, TokenData(TokB, Undef, InstB, Undef, Undef))}

SingleOutcomesTTL ==
  {SingleError, SingleHttp(200, FrontData("object", Undef, Undef, Undef)),
   SingleHttp(200, FrontData("object", Undef, PathA, Undef))}

NextTTL ==
  \/ Tick
  \/ \E s \in Sessions : Auth(s)
  \/ \E s \in Sessions, code \in {Undef, Code1} : CallbackBegin(s, code)
  \/ \E r \in pending, o \in TokenOutcomesTTL : TokenResponse(r, o)
  \/ \E r \in pending, o \in {NetError} : AltResponse(r, o)
  \/ \E s \in Sessions : Logout(s)
  \/ \E s \in Sessions : FrontdoorBegin(s)
  \/ \E r \in pending, o \in SingleOutcomesTTL : SingleAccessResponse(r, o)
  \/ \E s \in Sessions : ApiMe(s)

SpecTTL == Init /\ [][NextTTL]_vars

----------------------------------------------------------------------------
(* Properties *)

\* the step answered an /oauth/callback request that had sent its token POST
CallbackAnswered(r) == r.kind = "callback" /\ r.exch.kind # "none"

\* C1: every stored session record holds both a non-empty access token and
\* a non-empty instance URL; a partial token record is never persisted.
C1_NoPartialRecord ==
  \A s \in Sessions :
    store[s].present =>
      Truthy(store[s].sf.access_token) /\ Truthy(store[s].sf.instance_url)

\* C2: a callback whose exchange returned HTTP 200 without an access_token
\* field is answered 500, is not redirected to the application root, and
\* leaves an unauthenticated session unauthenticated.
C2_MissingTokenFails ==
  [][ ( /\ CallbackAnswered(resp')
        /\ resp'.exch.kind = "http"
        /\ resp'.exch.status = 200
        /\ resp'.exch.data.access_token = Undef
        /\ ~Authenticated(store[resp'.sess]) )
      => ( /\ resp'.status = 500
           /\ resp'.location # <<"/">>
           /\ ~Authenticated(store'[resp'.sess]) ) ]_vars

\* the token exchange failed by transport error or by a non-200 status
FailedExchange(o) == o.kind = "neterr" \/ (o.kind = "http" /\ o.status # 200)

\* C3: a callback whose exchange failed by transport error or non-200 status
\* is answered 500 and leaves every session record as it was.
C3_FailedExchangeKeepsSession ==
  [][ (CallbackAnswered(resp') /\ FailedExchange(resp'.exch))
      => (resp'.status = 500 /\ store' = store) ]_vars

\* C3 witness: a callback on an authenticated session failed by transport
\* error; the session still holds its tokens.
C3_Witness ==
  /\ CallbackAnswered(resp)
  /\ resp.exch.kind = "neterr"
  /\ resp.status = 500
  /\ Authenticated(store[resp.sess])

\* C4: a callback request sends at most one token POST, to any host.
C4_OneExchangeAttempt ==
  resp.kind = "callback" => Len(resp.posts) <= 1

\* the single-access response carries no usable URI, as the claim words it
NoUsableUri(d) ==
  /\ ~Truthy(d.frontdoor_uri)
  /\ ~Truthy(d.frontdoor_url)
  /\ ~(d.type = "string" /\ d.str # << >>)

\* the single-access call itself errored: transport failure or rejection
CallErrored(o) == o.kind = "neterr" \/ o.status < 200 \/ o.status >= 300

\* C5: /api/frontdoor answers 500 singleaccess_failed exactly when the call
\* errors, and the fallback URL exactly when the call succeeds without a
\* usable URI (an empty or null body included).
C5_ErrorVersusFallback ==
  (resp.kind = "frontdoor" /\ resp.exch.kind # "none") =>
    /\ (resp.status = 500 /\ resp.body.error = <<"singleaccess_failed">>)
         <=> CallErrored(resp.exch)
    /\ (resp.status = 200 /\ resp.body.note # Undef)
         <=> (~CallErrored(resp.exch) /\ NoUsableUri(resp.exch.data))

\* C6: a session becomes authenticated only in the step that answers a
\* callback whose exchange returned 200 with a non-empty access_token.
C6_OnlyCallbackAuthenticates ==
  [][ \A s \in Sessions :
        (~Authenticated(store[s]) /\ Authenticated(store'[s]))
        => ( /\ CallbackAnswered(resp')
             /\ resp'.sess = s
             /\ resp'.exch.kind = "http"
             /\ resp'.exch.status = 200
             /\ Truthy(resp'.exch.data.access_token) ) ]_vars

\* C6 witness: a callback has just authenticated its session.
C6_Witness ==
  /\ CallbackAnswered(resp)
  /\ resp.status = 302
  /\ Authenticated(store[resp.sess])

\* every access or refresh token the provider issues
Secrets == {TokA, TokB, RefA}

\* the fields of a response body other than frontdoorUrl
OtherFields == {"text", "error", "detail", "authenticated", "instance_url", "note"}

\* C7: no body of /api/me or /api/frontdoor holds an access or refresh
\* token outside frontdoorUrl, and frontdoorUrl holds no refresh token.
C7_NoTokenInBody ==
  resp.kind \in {"me", "frontdoor"} =>
    /\ \A f \in OtherFields, t \in Secrets : ~Includes(resp.body[f], t)
    /\ ~Includes(resp.body.frontdoorUrl, RefA)
    /\ resp.kind = "me" => resp.body.frontdoorUrl = Undef

\* C7 witness: a 500 of /api/frontdoor with a detail, on a session that
\* holds an access and a refresh token.
C7_Witness ==
  /\ resp.kind = "frontdoor"
  /\ resp.status = 500
  /\ resp.body.detail # Undef
  /\ Authenticated(store[resp.sess])
  /\ Truthy(store[resp.sess].sf.refresh_token)

\* C8: /api/me on a session whose last record was written by a complete
\* successful exchange, with no logout since, answers authenticated true
\* with the instance_url of that exchange.
C8_MeMatchesGrant ==
  (resp.kind = "me" /\ lastGrant[resp.sess] # Undef) =>
    /\ resp.body.authenticated = <<"true">>
    /\ resp.body.instance_url = lastGrant[resp.sess]

\* C8 witness: /api/me answered on a session granted the second instance.
C8_Witness ==
  /\ resp.kind = "me"
  /\ lastGrant[resp.sess] = InstB
  /\ resp.body.instance_url = InstB

\* C9: /api/me answers authenticated true exactly for the sessions that
\* hold a complete token pair, those /api/frontdoor does not answer 401.
C9_MeAgreesWithFrontdoor ==
  resp.kind = "me" =>
    (resp.body.authenticated = <<"true">> <=> Authenticated(store[resp.sess]))

\* C10: /api/frontdoor on a session without a complete token pair answers
\* 401 not_authenticated and suspends no outbound call.
C10_UnauthenticatedFrontdoor ==
  [][ \A s \in Sessions :
        (FrontdoorBegin(s) /\ ~Authenticated(store[s]))
        => ( /\ resp'.kind = "frontdoor"
             /\ resp'.sess = s
             /\ resp'.status = 401
             /\ resp'.body.error = <<"not_authenticated">>
             /\ resp'.posts = << >>
             /\ pending' = pending ) ]_vars

\* C10 witness: 401 on a session with a partial record while another
\* session is authenticated.
C10_Witness ==
  /\ resp.kind = "frontdoor"
  /\ resp.status = 401
  /\ store[resp.sess].present
  /\ \E t \in Sessions : t # resp.sess /\ Authenticated(store[t])

\* C11: every /logout is answered with a redirect to the application root
\* and leaves no record for its session; a /api/me that comes next on that
\* session answers authenticated false and a /api/frontdoor answers 401.
C11_LogoutClears ==
  [][ /\ \A s \in Sessions :
           Logout(s) => ( /\ resp'.kind = "logout"
                          /\ resp'.status = 302
                          /\ resp'.location = <<"/">>
                          /\ ~store'[s].present )
      /\ (resp.kind = "logout" /\ resp'.kind = "me" /\ resp'.sess = resp.sess)
           => resp'.body.authenticated = <<"false">>
      /\ (resp.kind = "logout" /\ resp'.sess = resp.sess
          /\ resp'.kind = "frontdoor" /\ resp'.exch.kind = "none")
           => resp'.status = 401 ]_vars

\* C11 witness: /logout answered on a session that had been authenticated
\* (a /api/frontdoor of that session is still suspended).
C11_Witness ==
  /\ resp.kind = "logout"
  /\ resp.status = 302
  /\ ~store[resp.sess].present
  /\ \E r \in pending : r.kind = "frontdoor" /\ r.sess = resp.sess

\* the step answers the suspended /api/frontdoor request r
FrontdoorAnswers(r) ==
  /\ r.kind = "frontdoor"
  /\ r \notin pending'
  /\ resp'.kind = "frontdoor"
  /\ resp'.sess = r.sess

\* the sid with every reserved character percent-escaped, "!" included
SidAllEscaped(tok) ==
  CASE tok = TokA -> <<"0", "0", "D", "%", "2", "1", "X">>
    [] tok = TokB -> <<"0", "0", "D", "%", "2", "B", "b">>

\* the sid as encodeURIComponent writes it: "!" stays, "+" becomes %2B
SidOfCode(tok) ==
  CASE tok = TokA -> <<"0", "0", "D", "!", "X">>
    [] tok = TokB -> <<"0", "0", "D", "%", "2", "B", "b">>

ReturnedUris(d) ==
  {v \in {d.frontdoor_uri, d.frontdoor_url, IF d.type = "string" THEN d.str ELSE Undef} :
     Truthy(v)}

\* v is a full URL: it starts with http:// or https://
IsFullUrl(v) ==
  \/ StartsWith(v, <<"h", "t", "t", "p", ":", "/", "/">>)
  \/ StartsWith(v, <<"h", "t", "t", "p", "s", ":", "/", "/">>)

C14_RedirectNotFollowed ==
  [][ ( /\ CallbackAnswered(resp')
        /\ resp'.exch.kind = "http"
        /\ resp'.exch.status >= 300 /\ resp'.exch.status < 400 )
      => ( /\ resp'.status = 500
           /\ resp'.body.text # Undef
           /\ resp'.posts = <<tokenUrl>>
           /\ store' = store ) ]_vars

\* C14 witness: a 302 of the token endpoint was answered with 500.
C14_Witness ==
  /\ CallbackAnswered(resp)
  /\ resp.exch.status = 302
  /\ resp.status = 500
  /\ resp.posts = <<tokenUrl>>

\* C15: a callback without code is answered 400, suspends no token
\* exchange, and leaves every session record as it was.
C15_MissingCode ==
  [][ \A s \in Sessions :
        CallbackBegin(s, Undef)
        => ( /\ resp'.kind = "callback"
             /\ resp'.sess = s
             /\ resp'.status = 400
             /\ resp'.posts = << >>
             /\ pending' = pending
             /\ store' = store ) ]_vars

\* C15 witness: 400 on a session that is, and stays, authenticated.
C15_Witness ==
  /\ resp.kind = "callback"
  /\ resp.status = 400
  /\ resp.exch.kind = "none"
  /\ Authenticated(store[resp.sess])

\* C16: /auth and /api/me leave the session store as it is, and a /api/me
\* that directly follows a /api/me of the same session answers the same.
C16_AuthAndMeReadOnly ==
  [][ /\ \A s \in Sessions : (Auth(s) \/ ApiMe(s)) => store' = store
      /\ (resp.kind = "me" /\ resp'.kind = "me" /\ resp'.sess = resp.sess)
           => resp'.body = resp.body ]_vars

\* C16 witness: /api/me answered for a session with a stored record while
\* the other session, which only received answers, has none.
C16_Witness ==
  /\ resp.kind = "me"
  /\ resp.body.authenticated = <<"true">>
  /\ \E t \in Sessions : t # resp.sess /\ ~store[t].present

----------------------------------------------------------------------------
(* The same server with a provider that may never answer *)

\* the provider accepts the connection of request r and never answers it;
\* axios.post is given no timeout, and its default is to wait without limit
Hang(r) ==
  /\ r \in pending
  /\ Key(r) \notin silent
  /\ silent' = silent \cup {Key(r)}
  /\ resp' = NoResp
  /\ UNCHANGED <<variant, now, store, pending, lastGrant>>

\* the outbound call of a suspended request of session s settles
AnswerToken(s) ==
  \E r \in pending, o \in TokenOutcomesTTL : r.sess = s /\ TokenResponse(r, o)

AnswerAlt(s) ==
  \E r \in pending, o \in {NetError} : r.sess = s /\ AltResponse(r, o)

AnswerSingle(s) ==
  \E r \in pending, o \in SingleOutcomesTTL : r.sess = s /\ SingleAccessResponse(r, o)

NextLive ==
  \/ \E r \in pending : Hang(r)
  \/ \E s \in Sessions, code \in {Undef, Code1} : CallbackBegin(s, code)
  \/ \E s \in Sessions : AnswerToken(s)
  \/ \E s \in Sessions : AnswerAlt(s)
  \/ \E s \in Sessions : Logout(s)
  \/ \E s \in Sessions : FrontdoorBegin(s)
  \/ \E s \in Sessions : AnswerSingle(s)

\* a call the provider answers, or that fails in transport, settles its promise
SpecLive ==
  /\ Init
  /\ [][NextLive]_vars
  /\ \A s \in Sessions :
       WF_vars(AnswerToken(s)) /\ WF_vars(AnswerAlt(s)) /\ WF_vars(AnswerSingle(s))

\* a request of the given kind on session s waits for its outbound call
Waiting(s, k) == \E r \in pending : r.sess = s /\ r.kind = k

\* C18: every /oauth/callback request with a code and every /api/frontdoor
\* request of an authenticated session is eventually answered, whether or
\* not the provider answers the outbound call.
C18_EventuallyAnswered ==
  \A s \in Sessions, k \in {"callback", "frontdoor"} :
    Waiting(s, k) ~> ~Waiting(s, k)

----------------------------------------------------------------------------
(* The same server with two authorization codes in flight on one session *)

NextRace ==
  \/ \E s \in Sessions, code \in {Code1, Code2} : CallbackBegin(s, code)
  \/ \E r \in pending, o \in TokenOutcomesTTL : TokenResponse(r, o)
  \/ \E r \in pending, o \in {NetError} : AltResponse(r, o)
  \/ \E s \in Sessions : Logout(s)
  \/ \E s \in Sessions : ApiMe(s)

SpecRace == Init /\ [][NextRace]_vars

\* C19: a callback answered with the redirect leaves in the session exactly
\* the token fields of its own exchange response (a field the response lacks
\* is absent afterwards, never the earlier value), and the stored record
\* changes in no other step than such a callback, so after overlapping
\* callbacks the record is the complete set of the one that wrote last.
C19_LastWriterWholeRecord ==
  [][ \A s \in Sessions :
        /\ (CallbackAnswered(resp') /\ resp'.sess = s /\ resp'.status = 302)
             => LET d == resp'.exch.data
                    sf == store'[s].sf
                IN /\ store'[s].present
                   /\ sf.access_token = d.access_token
                   /\ sf.refresh_token = d.refresh_token
                   /\ sf.instance_url = d.instance_url
                   /\ sf.id \in {d.id, Undef}
                   /\ sf.issued_at \in {d.issued_at, Undef}
        /\ (store'[s].present /\ store'[s].sf # store[s].sf)
             => (CallbackAnswered(resp') /\ resp'.sess = s /\ resp'.status = 302) ]_vars

\* C19 witness: a callback whose exchange returned no refresh token has been
\* answered with the redirect while a callback of the same session with the
\* other code is still waiting for its exchange.
C19_Witness ==
  /\ CallbackAnswered(resp)
  /\ resp.status = 302
  /\ resp.exch.data.refresh_token = Undef
  /\ store[resp.sess].sf.refresh_token = Undef
  /\ \E r \in pending : r.kind = "callback" /\ r.sess = resp.sess

\* C20: when /logout of a session has just been answered while a callback of
\* that session is still waiting for its token exchange, the answer to that
\* callback does not leave the session authenticated.
C20_LogoutOutlastsCallback ==
  [][ \A s \in Sessions :
        (resp.kind = "logout" /\ resp.sess = s /\ Waiting(s, "callback"))
          => ~Authenticated(store'[s]) ]_vars

====
